---- MODULE Spec2Model ----
(***************************************************************************)
(* Model of the environment-monitoring ingest path:                        *)
(*   MQTTHandler (src/src/mqtt_handler.py) builds an envelope from a       *)
(*   payload and dispatches it by topic; the handlers that DataProcessor   *)
(*   (src/src/data_processor.py) registers reshape the envelope and write  *)
(*   it to MongoHandler / PostgresHandler / Neo4jHandler                    *)
(*   (src/src/database/*.py).                                              *)
(***************************************************************************)
EXTENDS Integers, Sequences, FiniteSets, TLC

(***************************************************************************)
(* Bounds of the model.                                                    *)
(***************************************************************************)
\* messages delivered by the transport in one behaviour
MaxMsgs == 2
\* direct MongoHandler.insert_sensor_data calls in one behaviour
MaxInserts == 2
\* register_handler calls made by the host after construction
MaxRegs == 2

(***************************************************************************)
(* Python / JSON values.  Every value has the same shape so that values of *)
(* different Python types can be compared: t is the type tag, n the number *)
(* (or the instant of a timestamp), s the text.                            *)
(*   "absent" is not a value: it marks a key that is not in a dict.        *)
(***************************************************************************)
Absent == [t |-> "absent", n |-> 0, s |-> ""]
None == [t |-> "null", n |-> 0, s |-> ""]
Num(i) == [t |-> "num", n |-> i, s |-> ""]
Str(x) == [t |-> "str", n |-> 0, s |-> x]

\* Python truthiness: None, 0 and "" are falsy
Truthy(v) == \/ v.t = "num" /\ v.n # 0
             \/ v.t = "str" /\ v.s # ""
             \/ v.t = "dt"

\* a or b
Or(a, b) == IF Truthy(a) THEN a ELSE b

\* datetime.utcnow().isoformat() at instant c: ISO text of the current time
NowIso(c) == [t |-> "str", n |-> c, s |-> "utcnow"]
\* datetime.now(timezone.utc) at instant c
NowDt(c) == [t |-> "dt", n |-> c, s |-> "utcnow"]

\* the texts datetime.fromisoformat accepts, among the texts of the model
IsoTexts == {"utcnow", "2024-01-09T10:30:00"}
IsIso(v) == v.t = "str" /\ v.s \in IsoTexts
\* datetime.fromisoformat(text.replace('Z', '+00:00'))
FromIso(v) == [t |-> "dt", n |-> v.n, s |-> v.s]

(***************************************************************************)
(* Dicts: a dict is a function from every key of the model to a value,     *)
(* Absent for the keys it does not hold.                                   *)
(***************************************************************************)
SensorKeys == {"temperature", "humidity", "pm2_5", "pm10", "co2"}

Keys == SensorKeys \cup
        {"device_id", "timestamp", "location", "aqi", "status", "battery_level",
         "signal_strength", "uptime", "device_type", "raw_data", "_topic",
         "_timestamp", "sensor_type", "value", "unit", "topic",
         "metadata_topic", "metadata_source", "last_seen"}

EmptyDict == [k \in Keys |-> Absent]

\* the dict holding exactly the items of f
Dict(f) == [k \in Keys |-> IF k \in DOMAIN f THEN f[k] ELSE Absent]

\* key in d
Has(d, k) == d[k] # Absent
\* d.get(key)
Get(d, k) == IF Has(d, k) THEN d[k] ELSE None
\* d.get(key, default)
GetD(d, k, default) == IF Has(d, k) THEN d[k] ELSE default
\* bool(d): a dict is truthy when it is not empty
NonEmpty(d) == \E k \in Keys : Has(d, k)

(***************************************************************************)
(* A record handed to a store: its scalar items f, and the dict it embeds  *)
(* (the envelope) under the key emb.key; emb.json tells that the embedded  *)
(* dict was serialised with json.dumps instead of being passed as a dict.  *)
(***************************************************************************)
NoEmb == [key |-> "", json |-> FALSE, d |-> EmptyDict]
Emb(key, d) == [key |-> key, json |-> FALSE, d |-> d]
\* json.dumps(d)
JsonDumps(key, d) == [key |-> key, json |-> TRUE, d |-> d]
Rec(f, emb) == [f |-> Dict(f), emb |-> emb]

(***************************************************************************)
(* The stores as one value, threaded through the handlers:                 *)
(*   sd    MongoDB sensor_data collection                                  *)
(*   dm    MongoDB device_metadata collection                              *)
(*   ed    PostgreSQL environmental_data table                             *)
(*   sr    PostgreSQL sensor_readings table                                *)
(*   g     the Neo4j graph                                                 *)
(*   calls the store operations the handler has called so far, in order,   *)
(*         with the record it passed and what the operation returned       *)
(*   raised an exception is propagating out of the handler                 *)
(*   env    the envelope dict being handled, as the calls so far left it   *)
(***************************************************************************)
Call(op, rec, ok) == [op |-> op, rec |-> rec, ok |-> ok]

World(sd, dm, ed, sr, g, calls) ==
    [sd |-> sd, dm |-> dm, ed |-> ed, sr |-> sr, g |-> g, calls |-> calls,
     raised |-> FALSE, env |-> EmptyDict]

\* the Neo4j graph: Device, Location and Reading nodes, LOCATED_IN links
\* (device id, location name), SensorType nodes
EmptyGraph ==
    [devices |-> <<>>, locations |-> <<>>, located_in |-> <<>>, readings |-> <<>>,
     sensor_types |-> <<>>]

(***************************************************************************)
(* What the backends do during one message:                                *)
(*   mongo  insert_one succeeds                                            *)
(*   meta   device_metadata.update_one succeeds                            *)
(*   pg     "ok"; "down": connect() fails, the insert returns False;       *)
(*          "lost": the connection breaks during execute, so rollback() in *)
(*          the except clause raises and the exception leaves the adapter  *)
PgOutcomes == {"ok", "down", "lost"}
(*   neo    the Neo4j session runs its queries                             *)
(***************************************************************************)
Backends == [mongo : BOOLEAN, meta : BOOLEAN, pg : PgOutcomes, neo : BOOLEAN]
AllUp == [mongo |-> TRUE, meta |-> TRUE, pg |-> "ok", neo |-> TRUE]

(***************************************************************************)
(* MongoHandler (src/src/database/mongo_handler.py)                        *)
(***************************************************************************)
\* the items of update_data that "Remove None values" drops
NoneKeys(u) == {k \in DOMAIN u \cap {"device_id", "location"} : u[k] = None}
RemoveNone(u) == [k \in (DOMAIN u) \ NoneKeys(u) |-> u[k]]

\* positions of the documents of coll that match {'device_id': device_id}
Matching(coll, device_id) ==
    {i \in 1..Len(coll) : coll[i]["device_id"] = device_id}

\* $set: the items of upd replace or add to those of doc, the others stay
SetItems(doc, upd) ==
    [k \in (DOMAIN doc) \cup (DOMAIN upd) |->
        IF k \in DOMAIN upd THEN upd[k] ELSE doc[k]]

\* mutant: a matching document is never looked for, every call inserts
update_one_always_inserts(coll, device_id, upd) ==
    Append(coll, SetItems([device_id |-> device_id], upd))

\* collection.update_one({'device_id': device_id}, {'$set': upd}, upsert=True)
update_one(coll, device_id, upd) ==
    IF Matching(coll, device_id) = {}
    THEN Append(coll, SetItems([device_id |-> device_id], upd))
    ELSE LET i == CHOOSE j \in Matching(coll, device_id) :
                      \A m \in Matching(coll, device_id) : j <= m
         IN [coll EXCEPT ![i] = SetItems(coll[i], upd)]

\* the update_data dict update_device_metadata builds (before None removal)
UpdateData(device_id, latest_data, c) ==
    [device_id |-> device_id,
     last_seen |-> NowDt(c),
     last_values |-> [k \in SensorKeys |-> Get(latest_data, k)],
     location |-> Get(latest_data, "location"),
     sensor_types |-> {k \in SensorKeys : Has(latest_data, k) /\ latest_data[k] # None}]

\* MongoHandler.update_device_metadata; metaUp: the update_one call succeeds
\* (an exception it raises is caught and logged, the collection is unchanged)
update_device_metadata(dm, device_id, latest_data, c, metaUp) ==
    IF ~Truthy(device_id) THEN dm
    ELSE IF ~metaUp THEN dm
    ELSE update_one(dm, device_id, RemoveNone(UpdateData(device_id, latest_data, c)))

\* the timestamp step of insert_sensor_data: does fromisoformat raise?
TimestampRaises(f) ==
    Has(f, "timestamp") /\ f["timestamp"].t = "str" /\ ~IsIso(f["timestamp"])
\* the record after the timestamp step
WithTimestamp(f, c) ==
    IF ~Has(f, "timestamp") THEN [f EXCEPT !["timestamp"] = NowDt(c)]
    ELSE IF f["timestamp"].t = "str" THEN [f EXCEPT !["timestamp"] = FromIso(f["timestamp"])]
    ELSE f

\* does insert_sensor_data return an id (insert_one succeeded)?
InsertOk(rec, up) == ~TimestampRaises(rec.f) /\ up.mongo

\* data['timestamp'] = ...: the timestamp step assigns into the dict the
\* caller passed, which changes the envelope when that dict is the envelope
\* itself (a record marked "self") and not a dict built from it
Assigned(env, rec, c) ==
    IF rec.emb.key = "self" /\ ~TimestampRaises(rec.f) THEN WithTimestamp(rec.f, c)
    ELSE env

\* insert_sensor_data with an update_device_metadata that lets the failure of
\* its update_one reach the caller's except clause
insert_sensor_data_metadata_raises(w, rec, c, up) ==
    IF ~InsertOk(rec, up)
    THEN [w EXCEPT !.calls = Append(@, Call("insert_sensor_data", rec, FALSE)),
                   !.env = Assigned(@, rec, c)]
    ELSE LET doc == [rec EXCEPT !.f = WithTimestamp(rec.f, c)]
         IN [w EXCEPT !.sd = Append(@, doc),
                      !.env = Assigned(@, rec, c),
                      !.dm = update_device_metadata(@, Get(doc.f, "device_id"),
                                                    doc.f, c, up.meta),
                      !.calls = Append(@, Call("insert_sensor_data", rec, up.meta))]

\* MongoHandler.insert_sensor_data(data): the world after the call
insert_sensor_data(w, rec, c, up) ==
    IF ~InsertOk(rec, up)
    THEN [w EXCEPT !.calls = Append(@, Call("insert_sensor_data", rec, FALSE)),
                   !.env = Assigned(@, rec, c)]
    ELSE LET doc == [rec EXCEPT !.f = WithTimestamp(rec.f, c)]
         IN [w EXCEPT !.sd = Append(@, doc),
                      !.env = Assigned(@, rec, c),
                      !.dm = update_device_metadata(@, Get(doc.f, "device_id"),
                                                    doc.f, c, up.meta),
                      !.calls = Append(@, Call("insert_sensor_data", rec, TRUE))]

(***************************************************************************)
(* PostgresHandler (src/src/database/postgres_handler.py)                  *)
(***************************************************************************)
\* a DECIMAL / INTEGER column accepts a number or NULL, not free text
NumericOk(v) == v.t \in {"num", "null"}
\* a TIMESTAMP column accepts ISO text or NULL
TimestampOk(v) == v.t = "null" \/ IsIso(v) \/ v.t = "dt"
\* a NOT NULL VARCHAR column
NotNullOk(v) == v.t # "null"

\* the row INSERT INTO sensor_readings binds: the eight data.get(...) values
ReadingRow(rec) ==
    [f |-> Dict([k \in {"device_id", "sensor_type", "timestamp", "value", "unit",
                        "location", "topic"} |-> Get(rec.f, k)]),
     emb |-> rec.emb]

\* does the INSERT into sensor_readings succeed once connected?
ReadingAccepted(row) ==
    /\ NotNullOk(row.f["device_id"])
    /\ NotNullOk(row.f["sensor_type"])
    /\ TimestampOk(row.f["timestamp"])
    /\ NumericOk(row.f["value"])

\* PostgresHandler.insert_sensor_reading(data)
insert_sensor_reading(w, rec, up) ==
    LET row == ReadingRow(rec)
        ok == up.pg = "ok" /\ ReadingAccepted(row)
    IN [w EXCEPT !.sr = IF ok THEN Append(@, row) ELSE @,
                 !.calls = Append(@, Call("insert_sensor_reading", rec, ok)),
                 !.raised = (up.pg = "lost")]

\* the row INSERT INTO environmental_data binds; metadata is json.dumps'ed
EnvRow(rec) ==
    [f |-> Dict([k \in {"device_id", "timestamp", "temperature", "humidity", "pm2_5",
                        "pm10", "co2", "location", "metadata_topic",
                        "metadata_source"} |->
                    IF k \in {"metadata_topic", "metadata_source"}
                    THEN rec.f[k] ELSE Get(rec.f, k)]),
     emb |-> IF rec.emb.key = "" THEN NoEmb ELSE JsonDumps(rec.emb.key, rec.emb.d)]

EnvAccepted(row) ==
    /\ NotNullOk(row.f["device_id"])
    /\ TimestampOk(row.f["timestamp"])
    /\ \A k \in SensorKeys : NumericOk(row.f[k])

\* PostgresHandler.insert_environmental_data(data)
insert_environmental_data(w, rec, up) ==
    LET row == EnvRow(rec)
        ok == up.pg = "ok" /\ EnvAccepted(row)
    IN [w EXCEPT !.ed = IF ok THEN Append(@, row) ELSE @,
                 !.calls = Append(@, Call("insert_environmental_data", rec, ok)),
                 !.raised = (up.pg = "lost")]

(***************************************************************************)
(* Neo4jHandler (src/src/database/neo4j_handler.py)                        *)
(***************************************************************************)
\* positions of the nodes of a label whose key property has the value
NodesWith(nodes, key, v) == {i \in 1..Len(nodes) : nodes[i][key] = v}

\* mutant: CREATE in place of MERGE
MergeNode_create(nodes, key, v, props) ==
    Append(nodes, SetItems([k \in {key} |-> v], props))

\* MERGE (n {key: v}) SET props: the matching nodes get the properties, and
\* a node is created when none matches
MergeNode(nodes, key, v, props) ==
    IF NodesWith(nodes, key, v) = {}
    THEN Append(nodes, SetItems([k \in {key} |-> v], props))
    ELSE [i \in 1..Len(nodes) |->
            IF i \in NodesWith(nodes, key, v) THEN SetItems(nodes[i], props)
            ELSE nodes[i]]

\* does create_device_node return a device id?  MERGE on a null key fails
DeviceNodeOk(device_data, up) == up.neo /\ Get(device_data, "device_id") # None

\* Neo4jHandler.create_device_node(device_data): the graph after the call
create_device_node(g, device_data, up) ==
    IF ~DeviceNodeOk(device_data, up) THEN g
    ELSE [g EXCEPT !.devices =
            MergeNode(@, "device_id", Get(device_data, "device_id"),
                [device_type |-> GetD(device_data, "device_type", Str("environmental_sensor")),
                 model |-> Str("unknown"),
                 manufacturer |-> Str("unknown"),
                 installation_date |-> None,
                 last_seen |-> Get(device_data, "timestamp"),
                 status |-> GetD(device_data, "status", Str("active"))])]

\* Neo4jHandler.create_location_node(location_name, location_type)
create_location_node(g, location_name, location_type, up) ==
    IF ~up.neo \/ location_name = None THEN g
    ELSE [g EXCEPT !.locations =
            MergeNode(@, "name", location_name, [type |-> location_type])]

\* does link_device_to_location return True?  Both nodes must match
LinkOk(g, device_id, location_name, up) ==
    /\ up.neo
    /\ NodesWith(g.devices, "device_id", device_id) # {}
    /\ NodesWith(g.locations, "name", location_name) # {}

\* Neo4jHandler.link_device_to_location(device_id, location_name)
link_device_to_location(g, device_id, location_name, up) ==
    IF ~LinkOk(g, device_id, location_name, up) THEN g
    ELSE LET link == [device_id |-> device_id, name |-> location_name]
         IN IF \E i \in 1..Len(g.located_in) : g.located_in[i] = link THEN g
            ELSE [g EXCEPT !.located_in = Append(@, link)]

\* Neo4jHandler.create_sensor_reading with link_reading_to_sensor_type
create_sensor_reading(g, device_id, timestamp, sensor_type, value, unit, up) ==
    IF ~up.neo \/ NodesWith(g.devices, "device_id", device_id) = {} THEN g
    ELSE [g EXCEPT
            !.readings = Append(@, [device_id |-> device_id, timestamp |-> timestamp,
                                    sensor_type |-> sensor_type, value |-> value,
                                    unit |-> unit]),
            !.sensor_types = MergeNode(@, "type", sensor_type, << >>)]

\* the readings store_environmental_data creates, in its order
ReadingUnits ==
    << <<"temperature", "celsius">>, <<"humidity", "percent">>, <<"pm2_5", "ug/m3">>,
       <<"pm10", "ug/m3">>, <<"co2", "ppm">> >>

RECURSIVE StoreReadings(_, _, _, _)
StoreReadings(g, data, i, up) ==
    IF i > Len(ReadingUnits) THEN g
    ELSE LET k == ReadingUnits[i][1]
             g1 == IF Get(data, k) # None
                   THEN create_sensor_reading(g, Get(data, "device_id"),
                            Get(data, "timestamp"), Str(k), Get(data, k),
                            Str(ReadingUnits[i][2]), up)
                   ELSE g
         IN StoreReadings(g1, data, i + 1, up)

\* does store_environmental_data return True?
StoreEnvOk(data, up) == Truthy(Get(data, "device_id")) /\ up.neo

\* the graph after Neo4jHandler.store_environmental_data(data)
StoreEnvGraph(g, data, up) ==
    IF ~StoreEnvOk(data, up) THEN g
    ELSE LET device_id == Get(data, "device_id")
             location == Get(data, "location")
             \* the dict has 'last_seen', create_device_node reads 'timestamp'
             g1 == create_device_node(g,
                      Dict([device_id |-> device_id,
                            device_type |-> Str("environmental_sensor"),
                            last_seen |-> Get(data, "timestamp"),
                            status |-> Str("active")]), up)
             g2 == IF Truthy(location)
                   THEN link_device_to_location(
                            create_location_node(g1, location, Str("sensor_location"), up),
                            device_id, location, up)
                   ELSE g1
         IN StoreReadings(g2, data, 1, up)

\* Neo4jHandler.store_environmental_data(data): the world after the call
store_environmental_data(w, rec, up) ==
    IF w.raised THEN w
    ELSE [w EXCEPT !.g = StoreEnvGraph(@, rec.f, up),
                   !.calls = Append(@, Call("store_environmental_data", rec,
                                            StoreEnvOk(rec.f, up)))]

(***************************************************************************)
(* DataProcessor (src/src/data_processor.py): the handlers of the second   *)
(* registration block and the catch-all handler.  data is the envelope,    *)
(* c the instant of the call, up what the backends do.                     *)
(***************************************************************************)
\* mutant: the metadata names the handler's own topic and leaves the envelope out
TemperaturePgData_fixed_topic(data, c) ==
    Rec([device_id |-> GetD(data, "device_id", Str("unknown")),
         timestamp |-> Or(Get(data, "timestamp"), NowIso(c)),
         temperature |-> Get(data, "temperature"),
         humidity |-> Get(data, "humidity"),
         location |-> GetD(data, "location", Str("unknown")),
         metadata_topic |-> Str("sensors/temperature")],
        NoEmb)

\* pg_data of handle_temperature
TemperaturePgData(data, c) ==
    Rec([device_id |-> GetD(data, "device_id", Str("unknown")),
         timestamp |-> Or(Get(data, "timestamp"), NowIso(c)),
         temperature |-> Get(data, "temperature"),
         humidity |-> Get(data, "humidity"),
         location |-> GetD(data, "location", Str("unknown")),
         metadata_topic |-> Get(data, "_topic")],
        Emb("metadata.raw_data", data))

\* mutant: the relational write is not guarded by the two values
handle_temperature_unguarded(w, data, c, up) ==
    insert_environmental_data(w, TemperaturePgData(data, c), up)

\* handle_temperature (second block)
handle_temperature(w, data, c, up) ==
    LET pg_data == TemperaturePgData(data, c)
    IN IF pg_data.f["temperature"] # None \/ pg_data.f["humidity"] # None
       THEN insert_environmental_data(w, pg_data, up)
       ELSE w

\* mongo_data of handle_air_quality
AirQualityMongoData(data, c) ==
    Rec([device_id |-> GetD(data, "device_id", Str("unknown")),
         sensor_type |-> Str("air_quality"),
         location |-> GetD(data, "location", Str("unknown")),
         pm2_5 |-> Get(data, "pm2_5"),
         pm10 |-> Get(data, "pm10"),
         co2 |-> Get(data, "co2"),
         timestamp |-> Or(Get(data, "timestamp"), NowIso(c))],
        Emb("metadata", data))

\* mutant: the document is written only when a pollutant value is present
handle_air_quality_guarded(w, data, c, up) ==
    IF \E k \in {"pm2_5", "pm10", "co2"} : Get(data, k) # None
    THEN insert_sensor_data(w, AirQualityMongoData(data, c), c, up)
    ELSE w

\* handle_air_quality (second block)
handle_air_quality(w, data, c, up) ==
    insert_sensor_data(w, AirQualityMongoData(data, c), c, up)

\* mongo_data of handle_device_status
StatusMongoData(data, c) ==
    Rec([device_id |-> GetD(data, "device_id", Str("unknown")),
         sensor_type |-> Str("device_status"),
         timestamp |-> Or(Get(data, "timestamp"), NowIso(c)),
         status |-> Get(data, "status"),
         battery_level |-> Get(data, "battery_level"),
         signal_strength |-> Get(data, "signal_strength"),
         uptime |-> Get(data, "uptime")],
        Emb("raw_data", data))

\* 'value': data.get('battery_level') or data.get('status')
StatusValue(data) == Or(Get(data, "battery_level"), Get(data, "status"))

\* mutant: the unit is always 'percent'
StatusUnit_percent(data) == Str("percent")

\* 'unit': 'percent' if 'battery_level' in data else 'status'
StatusUnit(data) == IF Has(data, "battery_level") THEN Str("percent") ELSE Str("status")

\* pg_data of handle_device_status
StatusPgData(data, c) ==
    [f |-> Dict([device_id |-> GetD(data, "device_id", Str("unknown")),
                 sensor_type |-> Str("device_status"),
                 timestamp |-> Or(Get(data, "timestamp"), NowIso(c)),
                 value |-> StatusValue(data),
                 unit |-> StatusUnit(data),
                 location |-> GetD(data, "location", Str("unknown")),
                 topic |-> Get(data, "_topic")]),
     emb |-> IF NonEmpty(data) THEN JsonDumps("raw_data", data) ELSE NoEmb]

\* the second half of handle_device_status: the relational write
StatusPgWrite(w, data, c, up) ==
    LET pg_data == StatusPgData(data, c)
    IN IF pg_data.f["value"] # None
       THEN insert_sensor_reading(w, pg_data, up)
       ELSE w

\* mutant: the document store is handed the envelope itself, and the
\* relational record is built from the envelope afterwards
handle_device_status_passes_envelope(w, data, c, up) ==
    LET w1 == insert_sensor_data(w,
                  [f |-> data, emb |-> [key |-> "self", json |-> FALSE, d |-> EmptyDict]],
                  c, up)
    IN StatusPgWrite(w1, w1.env, c, up)

\* mutant: a relational write that fails is tried once more
handle_device_status_retry(w, data, c, up) ==
    LET w1 == StatusPgWrite(insert_sensor_data(w, StatusMongoData(data, c), c, up),
                            data, c, up)
    IN IF w1.calls[Len(w1.calls)].ok THEN w1 ELSE StatusPgWrite(w1, data, c, up)

\* mutant: the relational write is made only when the document write succeeded
handle_device_status_chained(w, data, c, up) ==
    LET w1 == insert_sensor_data(w, StatusMongoData(data, c), c, up)
    IN IF w1.calls[Len(w1.calls)].ok THEN StatusPgWrite(w1, data, c, up) ELSE w1

\* handle_device_status (second block)
handle_device_status(w, data, c, up) ==
    StatusPgWrite(insert_sensor_data(w, StatusMongoData(data, c), c, up), data, c, up)

\* DataProcessor.handle_temperature_auto
handle_temperature_auto(w, data, c, up) ==
    insert_environmental_data(w,
        Rec([device_id |-> GetD(data, "device_id", Str("test_device")),
             timestamp |-> Or(Get(data, "timestamp"), NowIso(c)),
             temperature |-> Get(data, "temperature"),
             humidity |-> Get(data, "humidity"),
             location |-> GetD(data, "location", Str("test_location")),
             metadata_source |-> Str("auto_detected"),
             metadata_topic |-> Get(data, "_topic")],
            Emb("metadata", EmptyDict)),
        up)

\* DataProcessor.handle_air_quality_auto
handle_air_quality_auto(w, data, c, up) ==
    insert_sensor_data(w,
        Rec([device_id |-> GetD(data, "device_id", Str("test_device")),
             sensor_type |-> Str("air_quality"),
             timestamp |-> Or(Get(data, "timestamp"), NowIso(c)),
             pm2_5 |-> Get(data, "pm2_5"),
             pm10 |-> Get(data, "pm10"),
             co2 |-> Get(data, "co2"),
             aqi |-> Get(data, "aqi"),
             location |-> GetD(data, "location", Str("test_location"))],
            Emb("raw_data", data)),
        c, up)

\* mutant: the unclassified document keeps the device id and drops the fields
handle_unclassified_without_fields(w, data, c, up) ==
    insert_sensor_data(w,
        Rec([device_id |-> GetD(data, "device_id", Str("test_device")),
             sensor_type |-> Str("test"),
             timestamp |-> Or(Get(data, "timestamp"), NowIso(c))],
            NoEmb),
        c, up)

\* the else branch of handle_test: the unclassified document
handle_unclassified(w, data, c, up) ==
    insert_sensor_data(w,
        Rec([device_id |-> GetD(data, "device_id", Str("test_device")),
             sensor_type |-> Str("test"),
             timestamp |-> Or(Get(data, "timestamp"), NowIso(c))],
            Emb("data", data)),
        c, up)

\* the kind handle_test detects from the keys of the message
AirKeys == {"pm2_5", "pm10", "co2", "aqi"}

\* mutant: the air-quality test comes first
Classify_air_first(data) ==
    IF \E k \in AirKeys : Has(data, k) THEN "AirQuality"
    ELSE IF Has(data, "temperature") \/ Has(data, "humidity") THEN "Temperature"
    ELSE "Unclassified"

\* mutant: the air-quality test looks at the three stored pollutants only
Classify_without_aqi(data) ==
    IF Has(data, "temperature") \/ Has(data, "humidity") THEN "Temperature"
    ELSE IF \E k \in AirKeys \ {"aqi"} : Has(data, k) THEN "AirQuality"
    ELSE "Unclassified"

Classify(data) ==
    IF Has(data, "temperature") \/ Has(data, "humidity") THEN "Temperature"
    ELSE IF \E k \in AirKeys : Has(data, k) THEN "AirQuality"
    ELSE "Unclassified"

\* mutant: a message carrying a status or a battery level and no sensor value
\* is handled as a device status
handle_test_with_status(w, data, c, up) ==
    CASE Classify(data) = "Temperature" -> handle_temperature_auto(w, data, c, up)
      [] Classify(data) = "AirQuality" -> handle_air_quality_auto(w, data, c, up)
      [] Classify(data) = "Unclassified"
           /\ (Has(data, "status") \/ Has(data, "battery_level")) ->
                handle_device_status(w, data, c, up)
      [] OTHER -> handle_unclassified(w, data, c, up)

\* DataProcessor.handle_test
handle_test(w, data, c, up) ==
    CASE Classify(data) = "Temperature" -> handle_temperature_auto(w, data, c, up)
      [] Classify(data) = "AirQuality" -> handle_air_quality_auto(w, data, c, up)
      [] OTHER -> handle_unclassified(w, data, c, up)

(***************************************************************************)
(* DataProcessor.register_mqtt_handlers: the closures of the first         *)
(* registration block (lines 34-228), which also write to Neo4j.           *)
(***************************************************************************)
\* neo4j_data of the first handle_temperature and handle_air_quality
Neo4jData(data, c, default_device, default_location, keys) ==
    Rec([k \in {"device_id", "timestamp", "location"} \cup keys |->
            CASE k = "device_id" -> GetD(data, "device_id", default_device)
              [] k = "timestamp" -> Or(Get(data, "timestamp"), NowIso(c))
              [] k = "location" -> GetD(data, "location", default_location)
              [] OTHER -> Get(data, k)],
        NoEmb)

\* handle_temperature (first block)
handle_temperature_b1(w, data, c, up) ==
    store_environmental_data(handle_temperature(w, data, c, up),
        Neo4jData(data, c, Str("unknown"), Str("unknown"), SensorKeys), up)

\* handle_air_quality (first block)
handle_air_quality_b1(w, data, c, up) ==
    store_environmental_data(handle_air_quality(w, data, c, up),
        Neo4jData(data, c, Str("unknown"), Str("unknown"), {"pm2_5", "pm10", "co2"}), up)

\* neo4j_device_data of the first handle_device_status
Neo4jDeviceData(data, c) ==
    Rec([device_id |-> GetD(data, "device_id", Str("unknown")),
         device_type |-> GetD(data, "device_type", Str("environmental_sensor")),
         timestamp |-> Or(Get(data, "timestamp"), NowIso(c)),
         status |-> GetD(data, "status", Str("active")),
         location |-> GetD(data, "location", Str("unknown"))],
        NoEmb)

\* handle_device_status (first block)
handle_device_status_b1(w, data, c, up) ==
    LET w1 == handle_device_status(w, data, c, up)
        dev == Neo4jDeviceData(data, c)
        ok == DeviceNodeOk(dev.f, up)
        w2 == [w1 EXCEPT !.g = create_device_node(@, dev.f, up),
                         !.calls = Append(@, Call("create_device_node", dev, ok))]
    IN IF w1.raised THEN w1
       ELSE IF ok /\ Truthy(dev.f["device_id"]) /\ Truthy(dev.f["location"])
       THEN [w2 EXCEPT
               !.g = link_device_to_location(@, dev.f["device_id"], dev.f["location"], up),
               !.calls = Append(@, Call("link_device_to_location", dev,
                             LinkOk(w2.g, dev.f["device_id"], dev.f["location"], up)))]
       ELSE w2

\* handle_test (first block)
handle_test_b1(w, data, c, up) ==
    CASE Classify(data) = "Temperature" ->
           store_environmental_data(
               insert_environmental_data(w,
                   Rec([device_id |-> GetD(data, "device_id", Str("test_device")),
                        timestamp |-> Or(Get(data, "timestamp"), NowIso(c)),
                        temperature |-> Get(data, "temperature"),
                        humidity |-> Get(data, "humidity"),
                        location |-> GetD(data, "location", Str("test_location")),
                        metadata_source |-> Str("test"),
                        metadata_topic |-> Get(data, "_topic")],
                       Emb("metadata", EmptyDict)),
                   up),
               Neo4jData(data, c, Str("test_device"), Str("test_location"),
                         {"temperature", "humidity"}), up)
      [] Classify(data) = "AirQuality" ->
           store_environmental_data(
               insert_sensor_data(w,
                   Rec([device_id |-> GetD(data, "device_id", Str("test_device")),
                        sensor_type |-> Str("air_quality"),
                        timestamp |-> Or(Get(data, "timestamp"), NowIso(c)),
                        pm2_5 |-> Get(data, "pm2_5"),
                        pm10 |-> Get(data, "pm10"),
                        co2 |-> Get(data, "co2"),
                        location |-> GetD(data, "location", Str("test_location"))],
                       Emb("raw_data", data)),
                   c, up),
               Neo4jData(data, c, Str("test_device"), Str("test_location"),
                         {"pm2_5", "pm10", "co2"}), up)
      [] OTHER -> handle_unclassified(w, data, c, up)

(***************************************************************************)
(* The callables a topic can be registered to.                             *)
(***************************************************************************)
Block1 == {"handle_temperature_b1", "handle_air_quality_b1",
           "handle_device_status_b1", "handle_test_b1"}
Block2 == {"handle_temperature", "handle_air_quality", "handle_device_status"}
Methods == {"handle_test", "handle_temperature_auto", "handle_air_quality_auto"}
Handlers == Block1 \cup Block2 \cup Methods
NoHandler == "none"

\* calling handler h with the envelope
RunHandler(h, w, data, c, up) ==
    CASE h = "handle_temperature_b1" -> handle_temperature_b1(w, data, c, up)
      [] h = "handle_air_quality_b1" -> handle_air_quality_b1(w, data, c, up)
      [] h = "handle_device_status_b1" -> handle_device_status_b1(w, data, c, up)
      [] h = "handle_test_b1" -> handle_test_b1(w, data, c, up)
      [] h = "handle_temperature" -> handle_temperature(w, data, c, up)
      [] h = "handle_air_quality" -> handle_air_quality(w, data, c, up)
      [] h = "handle_device_status" -> handle_device_status(w, data, c, up)
      [] h = "handle_test" -> handle_test(w, data, c, up)
      [] h = "handle_temperature_auto" -> handle_temperature_auto(w, data, c, up)
      [] h = "handle_air_quality_auto" -> handle_air_quality_auto(w, data, c, up)

(***************************************************************************)
(* MQTTHandler (src/src/mqtt_handler.py)                                   *)
(***************************************************************************)
ProcessorTopics == {"sensors/temperature", "sensors/humidity", "sensors/air_quality",
                    "sensors/device/status", "sensors/device/health", "test/topic"}
Topics == ProcessorTopics \cup {"other/topic"}

\* mutant: a topic keeps the first handler registered for it
register_handler_first_wins(mh, topic, h) ==
    IF mh[topic] = NoHandler THEN [mh EXCEPT ![topic] = h] ELSE mh

\* self.message_handlers[topic] = handler
register_handler(mh, topic, h) == [mh EXCEPT ![topic] = h]

\* the register_handler calls of DataProcessor.register_mqtt_handlers, in order
Registrations ==
    << <<"sensors/temperature", "handle_temperature_b1">>,
       <<"sensors/humidity", "handle_temperature_b1">>,
       <<"sensors/air_quality", "handle_air_quality_b1">>,
       <<"sensors/device/status", "handle_device_status_b1">>,
       <<"sensors/device/health", "handle_device_status_b1">>,
       <<"test/topic", "handle_test_b1">>,
       <<"sensors/temperature", "handle_temperature">>,
       <<"sensors/humidity", "handle_temperature">>,
       <<"sensors/air_quality", "handle_air_quality">>,
       <<"sensors/device/status", "handle_device_status">>,
       <<"sensors/device/health", "handle_device_status">>,
       <<"test/topic", "handle_test">> >>

RECURSIVE RegisterAll(_, _, _)
RegisterAll(mh, regs, i) ==
    IF i > Len(regs) THEN mh
    ELSE RegisterAll(register_handler(mh, regs[i][1], regs[i][2]), regs, i + 1)

\* a payload as the transport delivers it:
\*   "object"      text of a JSON object, d its items
\*   "json_other"  text of a JSON value that is not an object (42, "x", [1], null)
\*   "text"        text that is not JSON
\*   "bad_utf8"    bytes that are not UTF-8
PayloadKinds == {"object", "json_other", "text", "bad_utf8"}
Object(f) == [kind |-> "object", d |-> Dict(f), text |-> ""]
Other(kind, text) == [kind |-> kind, d |-> EmptyDict, text |-> text]

\* the try block of on_message up to the dispatch: is an envelope built?
\* (msg.payload.decode raises UnicodeDecodeError on bad bytes; data['_topic'] =
\* raises TypeError on a JSON value that is not an object; except catches
\* json.JSONDecodeError only)
EnvelopeBuilt(payload) == payload.kind \in {"object", "text"}

\* the exception the try block of on_message raises, "none" when it completes:
\* the decode and the item assignment as above, or what the handler lets out
\* (psycopg2's InterfaceError from rollback() on a lost connection)
Raised(payload, handler_raised) ==
    CASE payload.kind = "bad_utf8" -> "UnicodeDecodeError"
      [] payload.kind = "json_other" -> "TypeError"
      [] handler_raised -> "InterfaceError"
      [] OTHER -> "none"

\* the classes derived from Exception among them
Exceptions == {"UnicodeDecodeError", "TypeError", "JSONDecodeError", "InterfaceError"}

\* mutant: on_message has the inner except clause only
Caught_json_only(exc) == exc = "JSONDecodeError"

\* except Exception as e: the outer clause of on_message
Caught(exc) == exc \in Exceptions

\* mutant: a topic without a handler falls back to the catch-all handler
Lookup_catch_all(mh, topic) ==
    IF mh[topic] = NoHandler THEN mh["test/topic"] ELSE mh[topic]

\* if msg.topic in self.message_handlers: self.message_handlers[msg.topic]
Lookup(mh, topic) == mh[topic]

\* the envelope on_message builds
Envelope(topic, payload, c) ==
    IF payload.kind = "object"
    THEN [payload.d EXCEPT !["_topic"] = Str(topic), !["_timestamp"] = NowIso(c)]
    ELSE Dict([raw_data |-> Str(payload.text), _topic |-> Str(topic),
               _timestamp |-> NowIso(c)])

VARIABLES
    message_handlers,   \* MQTTHandler.message_handlers: topic -> handler
    connected,          \* MQTTHandler.connected
    subscribed,         \* topics client.subscribe was called with
    sensor_data,        \* MongoDB collection sensor_data
    device_metadata,    \* MongoDB collection device_metadata
    environmental_data, \* PostgreSQL table environmental_data
    sensor_readings,    \* PostgreSQL table sensor_readings
    graph,              \* Neo4j graph
    count,              \* operations so far: messages, inserts, registrations
    reglog,             \* the register_handler calls so far, in order
    last,               \* what the last on_message call did
    transport           \* the paho client: its network loop and broker session

vars == <<message_handlers, connected, subscribed, sensor_data, device_metadata,
          environmental_data, sensor_readings, graph, count, reglog, last, transport>>

stores == <<sensor_data, device_metadata, environmental_data, sensor_readings, graph>>

\* the instant of the next operation
Clock == count.msgs + count.inserts + 1

NoMessage ==
    [seen |-> FALSE, topic |-> "", payload |-> Other("text", ""), built |-> FALSE,
     data |-> EmptyDict, handler |-> NoHandler, invoked |-> <<>>, calls |-> <<>>,
     error |-> FALSE, warned |-> FALSE, regs |-> 0, exc |-> "none",
     propagated |-> FALSE, prev |-> [seen |-> FALSE, error |-> FALSE, warned |-> FALSE],
     env |-> EmptyDict]

\* mqtt.Client(...) before connect():
\*   loop      the network thread of loop_start() is running
\*   link      the broker has accepted the connection (CONNACK 0); the
\*             subscriptions requested on it are the set subscribed
\*   inflight  the on_message calls that have begun and not returned, each with
\*             the store calls its handler makes and how many it has made
\*   log       the store calls made by on_message calls, in order, as
\*             <<message number, operation>>
\*   stop      what the last processor.stop() call did
\*   iter      the subscription loop of an on_connect call in progress: the
\*             keys of message_handlers it iterates, how many it has
\*             subscribed, and whether the loop raised
\*   reg       the topic of a register_handler call that has stored its
\*             handler and not yet tested self.connected ("" when none)
NoIter == [active |-> FALSE, keys |-> <<>>, pos |-> 0, raised |-> FALSE]
NoTransport ==
    [loop |-> FALSE, link |-> FALSE, inflight |-> <<>>, log |-> <<>>, stop |-> "none",
     iter |-> NoIter, reg |-> ""]

\* after MQTTHandler() and the three store handlers are constructed
Init ==
    /\ message_handlers = [t \in Topics |-> NoHandler]
    /\ connected = FALSE
    /\ subscribed = {}
    /\ sensor_data = <<>>
    /\ device_metadata = <<>>
    /\ environmental_data = <<>>
    /\ sensor_readings = <<>>
    /\ graph = EmptyGraph
    /\ count = [msgs |-> 0, inserts |-> 0, regs |-> 0]
    /\ reglog = <<>>
    /\ last = NoMessage
    /\ transport = NoTransport

\* after DataProcessor(): register_mqtt_handlers has run
InitProcessor ==
    /\ message_handlers = RegisterAll([t \in Topics |-> NoHandler], Registrations, 1)
    /\ connected = FALSE
    /\ subscribed = {}
    /\ sensor_data = <<>>
    /\ device_metadata = <<>>
    /\ environmental_data = <<>>
    /\ sensor_readings = <<>>
    /\ graph = EmptyGraph
    /\ count = [msgs |-> 0, inserts |-> 0, regs |-> 0]
    /\ reglog = Registrations
    /\ last = NoMessage
    /\ transport = NoTransport

\* mutant: register_handler never subscribes
subscribe_never(flag, link, subs, topics) == subs

\* if self.connected: self.client.subscribe(topic); the request reaches the
\* broker only on an established connection (otherwise MQTT_ERR_NO_CONN)
subscribe_if_connected(flag, link, subs, topics) ==
    IF flag /\ link THEN subs \cup topics ELSE subs

\* MQTTHandler.register_handler(topic, handler), called by the host
RegisterHandler(topic, h) ==
    /\ count.regs < MaxRegs
    /\ message_handlers' = register_handler(message_handlers, topic, h)
    /\ subscribed' = subscribe_if_connected(connected, transport.link, subscribed, {topic})
    /\ reglog' = Append(reglog, <<topic, h>>)
    /\ count' = [count EXCEPT !.regs = @ + 1]
    /\ UNCHANGED <<connected, stores, last, transport>>

\* DataProcessor.register_mqtt_handlers(): its twelve register_handler calls
RegisterMqttHandlers ==
    /\ reglog = <<>>
    /\ message_handlers' = RegisterAll(message_handlers, Registrations, 1)
    /\ subscribed' = subscribe_if_connected(connected, transport.link, subscribed,
                                            ProcessorTopics)
    /\ reglog' = reglog \o Registrations
    /\ UNCHANGED <<connected, stores, count, last, transport>>

\* MQTTHandler.connect(): client.connect and client.loop_start
Connect ==
    /\ ~transport.loop
    /\ transport' = [transport EXCEPT !.loop = TRUE]
    /\ UNCHANGED <<message_handlers, connected, subscribed, stores, count, reglog, last>>

\* MQTTHandler.on_connect, called by the network loop when the broker answers
\* a connection attempt: reason_code 0 (rc = TRUE) or a failure code
OnConnect(rc) ==
    /\ transport.loop
    /\ ~transport.link
    /\ connected' = (IF rc THEN TRUE ELSE connected)
    /\ subscribed' = IF rc THEN {t \in Topics : message_handlers[t] # NoHandler}
                     ELSE subscribed
    /\ transport' = [transport EXCEPT !.link = rc]
    /\ UNCHANGED <<message_handlers, stores, count, reglog, last>>

\* MQTTHandler.on_disconnect, called by the network loop when the connection
\* is lost; the subscriptions of the connection end with it
OnDisconnect ==
    /\ transport.loop
    /\ transport.link
    /\ transport.inflight = <<>>
    /\ connected' = FALSE
    /\ subscribed' = {}
    /\ transport' = [transport EXCEPT !.link = FALSE]
    /\ UNCHANGED <<message_handlers, stores, count, reglog, last>>

\* the keys of message_handlers in insertion order: the topics of the
\* registrations, each at its first registration
RECURSIVE KeysInOrder(_, _)
KeysInOrder(log, n) ==
    IF n = 0 THEN <<>>
    ELSE LET before == KeysInOrder(log, n - 1)
         IN IF \E i \in 1..Len(before) : before[i] = log[n][1] THEN before
            ELSE Append(before, log[n][1])

\* on_connect with reason code 0, on the network thread, up to the start of
\* its loop: self.connected = True, and the iterator over the keys
OnConnectBegin ==
    /\ transport.loop
    /\ ~transport.link
    /\ ~transport.iter.active
    /\ ~transport.iter.raised
    /\ connected' = TRUE
    /\ subscribed' = {}
    /\ transport' = [transport EXCEPT !.link = TRUE,
                        !.iter = [active |-> TRUE, keys |-> KeysInOrder(reglog, Len(reglog)),
                                  pos |-> 0, raised |-> FALSE]]
    /\ UNCHANGED <<message_handlers, stores, count, reglog, last>>

\* one turn of `for topic in self.message_handlers.keys()`: the iterator
\* raises RuntimeError (dictionary changed size during iteration) when a key
\* has been added since the loop began; otherwise the next topic is
\* subscribed, or the loop ends
OnConnectNext ==
    /\ transport.iter.active
    /\ LET it == transport.iter
           grown == Len(KeysInOrder(reglog, Len(reglog))) # Len(it.keys)
       IN IF grown
          THEN /\ transport' = [transport EXCEPT !.iter.active = FALSE,
                                                  !.iter.raised = TRUE]
               /\ UNCHANGED subscribed
          ELSE IF it.pos < Len(it.keys)
          THEN /\ transport' = [transport EXCEPT !.iter.pos = @ + 1]
               /\ subscribed' = subscribed \cup {it.keys[it.pos + 1]}
          ELSE /\ transport' = [transport EXCEPT !.iter.active = FALSE]
               /\ UNCHANGED subscribed
    /\ UNCHANGED <<message_handlers, connected, stores, count, reglog, last>>

\* register_handler on the host thread, first statement:
\* self.message_handlers[topic] = handler
RegisterStore(topic, h) ==
    /\ count.regs < MaxRegs
    /\ transport.reg = ""
    /\ message_handlers' = register_handler(message_handlers, topic, h)
    /\ reglog' = Append(reglog, <<topic, h>>)
    /\ count' = [count EXCEPT !.regs = @ + 1]
    /\ transport' = [transport EXCEPT !.reg = topic]
    /\ UNCHANGED <<connected, subscribed, stores, last>>

\* register_handler, second statement: if self.connected: subscribe(topic)
RegisterSubscribe ==
    /\ transport.reg # ""
    /\ subscribed' = subscribe_if_connected(connected, transport.link, subscribed,
                                            {transport.reg})
    /\ transport' = [transport EXCEPT !.reg = ""]
    /\ UNCHANGED <<message_handlers, connected, stores, count, reglog, last>>

\* MQTTHandler.disconnect(): client.loop_stop and client.disconnect.  Whether
\* the client still calls on_disconnect once its loop is stopped is the
\* library's choice (cb).
Disconnect(cb) ==
    /\ transport.loop
    /\ transport.inflight = <<>>
    /\ connected' = (IF cb THEN FALSE ELSE connected)
    /\ subscribed' = {}
    /\ transport' = [transport EXCEPT !.loop = FALSE, !.link = FALSE]
    /\ UNCHANGED <<message_handlers, stores, count, reglog, last>>

\* MQTTHandler.on_message(client, userdata, msg): the callback
on_message(topic, payload, up) ==
    /\ count.msgs < MaxMsgs
    /\ LET c == Clock
           built == EnvelopeBuilt(payload)
           data == Envelope(topic, payload, c)
           handler == Lookup(message_handlers, topic)
           routed == built /\ handler # NoHandler
           w0 == [World(sensor_data, device_metadata, environmental_data,
                        sensor_readings, graph, <<>>) EXCEPT !.env = data]
       IN \E w \in {IF routed THEN RunHandler(handler, w0, data, c, up) ELSE w0} :
            /\ sensor_data' = w.sd
            /\ device_metadata' = w.dm
            /\ environmental_data' = w.ed
            /\ sensor_readings' = w.sr
            /\ graph' = w.g
            /\ last' = [seen |-> TRUE, topic |-> topic, payload |-> payload,
                        built |-> built,
                        data |-> IF built THEN data ELSE EmptyDict,
                        handler |-> handler,
                        invoked |-> IF routed THEN <<handler>> ELSE <<>>,
                        calls |-> w.calls,
                        error |-> ~built \/ w.raised,
                        warned |-> built /\ ~routed,
                        regs |-> Len(reglog),
                        exc |-> Raised(payload, w.raised),
                        propagated |-> /\ Raised(payload, w.raised) # "none"
                                       /\ ~Caught(Raised(payload, w.raised)),
                        prev |-> [seen |-> last.seen, error |-> last.error,
                                  warned |-> last.warned],
                        env |-> IF built THEN w.env ELSE EmptyDict]
    /\ count' = [count EXCEPT !.msgs = @ + 1]
    /\ UNCHANGED <<message_handlers, connected, subscribed, reglog>>

\* the transport calls on_message with a message, start to end
OnMessage(topic, payload, up) ==
    /\ on_message(topic, payload, up)
    /\ UNCHANGED transport

\* the store operations on_message makes for a message, in order
StoreOps(topic, payload, up) ==
    LET handler == Lookup(message_handlers, topic)
        w0 == World(sensor_data, device_metadata, environmental_data,
                    sensor_readings, graph, <<>>)
        calls == IF EnvelopeBuilt(payload) /\ handler # NoHandler
                 THEN RunHandler(handler, w0, Envelope(topic, payload, Clock), Clock, up).calls
                 ELSE <<>>
    IN [i \in 1..Len(calls) |-> calls[i].op]

\* mutant: every message is handled on a thread of its own
Busy_never(inflight) == FALSE

\* the network loop of loop_start() is one thread, and it is inside
\* on_message until the handler has returned or raised
Busy(inflight) == inflight # <<>>

\* the network loop takes the next message of a subscribed topic off the
\* connection and enters on_message
BeginMessage(topic, payload, up) ==
    /\ count.msgs + Len(transport.inflight) < MaxMsgs
    /\ transport.loop
    /\ transport.link
    /\ topic \in subscribed
    /\ ~Busy(transport.inflight)
    /\ transport' = [transport EXCEPT !.inflight =
                        Append(@, [n |-> count.msgs + Len(transport.inflight) + 1,
                                   topic |-> topic, payload |-> payload, up |-> up,
                                   ops |-> StoreOps(topic, payload, up), made |-> 0])]
    /\ UNCHANGED <<message_handlers, connected, subscribed, stores, count, reglog, last>>

\* the handler of a message in flight makes its next store call
StoreCall(i) ==
    /\ i \in 1..Len(transport.inflight)
    /\ transport.inflight[i].made < Len(transport.inflight[i].ops)
    /\ transport' = [transport EXCEPT
                        !.inflight[i].made = @ + 1,
                        !.log = Append(@, <<transport.inflight[i].n,
                                            transport.inflight[i].ops[
                                                transport.inflight[i].made + 1]>>)]
    /\ UNCHANGED <<message_handlers, connected, subscribed, stores, count, reglog, last>>

\* on_message returns: the handler has returned or raised, its writes are done
ReturnMessage(i) ==
    /\ i \in 1..Len(transport.inflight)
    /\ transport.inflight[i].made = Len(transport.inflight[i].ops)
    /\ on_message(transport.inflight[i].topic, transport.inflight[i].payload,
                  transport.inflight[i].up)
    /\ transport' = [transport EXCEPT !.inflight =
                        SubSeq(@, 1, i - 1) \o SubSeq(@, i + 1, Len(@))]

\* processor.stop(), as the main block calls it on KeyboardInterrupt.  Line 386
\* puts "def stop" inside start(), one level too deep and without a body of
\* its own (Python rejects the file at line 387), so DataProcessor has no
\* method stop: the call raises and the statements of lines 389-391
\* (mqtt_handler.disconnect(), mongo_handler.close(), neo4j_handler.close())
\* are not run by it.
Stop ==
    /\ transport.stop = "none"
    /\ transport' = [transport EXCEPT !.stop = "raised"]
    /\ UNCHANGED <<message_handlers, connected, subscribed, stores, count, reglog, last>>

\* direct calls of the Neo4jHandler operations, as test_neo4j.py makes them
CreateDeviceNode(device_data, up) ==
    /\ graph' = create_device_node(graph, device_data, up)
    /\ UNCHANGED <<message_handlers, connected, subscribed, sensor_data, device_metadata,
                   environmental_data, sensor_readings, count, reglog, last, transport>>

CreateLocationNode(location_name, location_type, up) ==
    /\ graph' = create_location_node(graph, location_name, location_type, up)
    /\ UNCHANGED <<message_handlers, connected, subscribed, sensor_data, device_metadata,
                   environmental_data, sensor_readings, count, reglog, last, transport>>

LinkDeviceToLocation(device_id, location_name, up) ==
    /\ graph' = link_device_to_location(graph, device_id, location_name, up)
    /\ UNCHANGED <<message_handlers, connected, subscribed, sensor_data, device_metadata,
                   environmental_data, sensor_readings, count, reglog, last, transport>>

\* last.calls keeps the call and whether it returned True
StoreEnvironmentalData(data, up) ==
    /\ count.inserts < MaxInserts
    /\ graph' = StoreEnvGraph(graph, data, up)
    /\ last' = [last EXCEPT !.calls = <<Call("store_environmental_data",
                                             [f |-> data, emb |-> NoEmb],
                                             StoreEnvOk(data, up))>>]
    /\ count' = [count EXCEPT !.inserts = @ + 1]
    /\ UNCHANGED <<message_handlers, connected, subscribed, sensor_data, device_metadata,
                   environmental_data, sensor_readings, reglog, transport>>

\* a direct call of MongoHandler.insert_sensor_data(data); last.calls keeps
\* the call and whether it returned an id
InsertSensorData(rec, up) ==
    /\ count.inserts < MaxInserts
    /\ \E w \in {insert_sensor_data(
                     World(sensor_data, device_metadata, environmental_data,
                           sensor_readings, graph, <<>>), rec, Clock, up)} :
            /\ sensor_data' = w.sd
            /\ device_metadata' = w.dm
            /\ last' = [last EXCEPT !.calls = w.calls]
    /\ count' = [count EXCEPT !.inserts = @ + 1]
    /\ UNCHANGED <<message_handlers, connected, subscribed, environmental_data,
                   sensor_readings, graph, reglog, transport>>

(***************************************************************************)
(* Inputs and specifications.                                              *)
(***************************************************************************)
\* the registrations and messages of the routing specification
RegisterTopics == {"sensors/temperature", "other/topic"}
RegisterHandlers == {"handle_air_quality", "handle_temperature_auto"}
RouterTopics == RegisterTopics \cup {"test/topic"}
RouterPayloads ==
    {Object([device_id |-> Str("s1"), temperature |-> Num(25)]),
     Other("text", "hello")}

NextRouter ==
    \/ RegisterMqttHandlers
    \/ \E t \in RegisterTopics, h \in RegisterHandlers : RegisterHandler(t, h)
    \/ \E t \in RouterTopics, p \in RouterPayloads : OnMessage(t, p, AllUp)

\* the host constructs the processor, may register further handlers, and the
\* transport delivers messages
Spec == Init /\ [][NextRouter]_vars

\* payloads of every shape, on registered and unregistered topics
DecodeTopics == {"sensors/temperature", "sensors/air_quality", "test/topic", "other/topic"}
DecodePayloads ==
    {Object([device_id |-> Str("s1"), temperature |-> Num(25)]),
     Object([device_id |-> Str("s1"), pm2_5 |-> Num(15)]),
     Other("json_other", "42"),
     Other("json_other", "[1, 2]"),
     Other("text", "hello"),
     Other("bad_utf8", "")}

NextDecode ==
    \E t \in DecodeTopics, p \in DecodePayloads : OnMessage(t, p, AllUp)

SpecDecode == InitProcessor /\ [][NextDecode]_vars

\* device-status messages
StatusTopics == {"sensors/device/status", "sensors/device/health"}
StatusPayloads ==
    {Object([k \in {x \in {"battery_level", "status"} : f[x] # Absent} |-> f[k]]) :
        f \in [battery_level : {Absent, Num(0), Num(85)},
               status : {Absent, None, Str(""), Str("online")}]}
StatusBackends ==
    {up \in Backends : up.meta /\ up.neo /\ up.pg # "lost" /\ (up.mongo \/ up.pg = "ok")}

NextStatus ==
    \E t \in StatusTopics, p \in StatusPayloads, up \in StatusBackends :
        OnMessage(t, p, up)

SpecStatus == InitProcessor /\ [][NextStatus]_vars

\* temperature and humidity messages
TemperatureTopics == {"sensors/temperature", "sensors/humidity"}
TemperaturePayloads ==
    {Object([k \in {x \in {"device_id", "temperature", "humidity"} : f[x] # Absent} |->
                f[k]]) :
        f \in [device_id : {Str("s1")},
               temperature : {Absent, None, Num(0), Num(25)},
               humidity : {Absent, None, Num(60)}]}
    \cup {Object([device_id |-> Str("s2"), humidity |-> Num(60),
                  location |-> Str("room_a")]),
          Object([pm2_5 |-> Num(15)]), Other("text", "hello")}
TemperatureBackends == {up \in Backends : up.mongo /\ up.meta /\ up.neo}

NextTemperature ==
    \E t \in TemperatureTopics, p \in TemperaturePayloads, up \in TemperatureBackends :
        OnMessage(t, p, up)

SpecTemperature == InitProcessor /\ [][NextTemperature]_vars

\* catch-all messages
TestPayloads ==
    {Object([k \in {x \in {"temperature", "pm2_5", "co2", "aqi", "status"} :
                      f[x] # Absent} |-> f[k]]) :
        f \in [temperature : {Absent, Num(25)},
               pm2_5 : {Absent, Num(15)},
               co2 : {Absent, Num(450)},
               aqi : {Absent, Num(42)},
               status : {Absent, Str("online")}]}
    \cup {Object([pm10 |-> None]),
          Object([temperature |-> None]),
          Object([sensor_type |-> Str("device_status"), battery_level |-> Num(85)]),
          Object([sensor_type |-> Str("device_status"), status |-> Str("online"),
                  aqi |-> Num(42)]),
          Other("text", "hello")}
TestBackends ==
    {up \in Backends : up.meta /\ up.neo /\ up.pg # "lost" /\ (up.mongo \/ up.pg = "ok")}

NextTest ==
    \E p \in TestPayloads, up \in TestBackends : OnMessage("test/topic", p, up)

SpecTest == InitProcessor /\ [][NextTest]_vars

\* direct inserts into the document store
MetaRecords ==
    {Rec([k \in {x \in {"device_id", "pm2_5", "co2", "location"} : f[x] # Absent} |->
             f[k]], NoEmb) :
        f \in [device_id : {Str("d1"), Str("d2")},
               pm2_5 : {Absent, Num(15)},
               co2 : {Absent, Num(450)},
               location : {Absent, Str("room_a")}]}
    \cup {Rec([device_id |-> Str("d1"), pm2_5 |-> Num(15), timestamp |-> ts], NoEmb) :
              ts \in {Str("yesterday"), Str("2024-01-09T10:30:00")}}
MetaBackends == {up \in Backends : up.neo /\ up.pg = "ok"}

NextMeta ==
    \E rec \in MetaRecords, up \in MetaBackends : InsertSensorData(rec, up)

SpecMeta == InitProcessor /\ [][NextMeta]_vars

\* messages that fail: payloads that do not decode, store adapters that are
\* down or lose their connection, topics without a handler
FailureTopics == {"sensors/temperature", "sensors/device/status", "other/topic"}
FailurePayloads ==
    {Object([device_id |-> Str("s1"), temperature |-> Num(25)]),
     Object([device_id |-> Str("s1"), battery_level |-> Num(85)]),
     Other("json_other", "42"),
     Other("text", "hello"),
     Other("bad_utf8", "")}
FailureBackends ==
    {up \in Backends : up.meta /\ up.neo /\ (up.mongo \/ up.pg = "ok")}

NextFailure ==
    \E t \in FailureTopics, p \in FailurePayloads, up \in FailureBackends :
        OnMessage(t, p, up)

SpecFailure == InitProcessor /\ [][NextFailure]_vars

\* air-quality messages with every subset of the pollutant fields
AirQualityPayloads ==
    {Object([k \in {x \in {"pm2_5", "pm10", "co2"} : f[x] # Absent} |-> f[k]]) :
        f \in [pm2_5 : {Absent, Num(15)},
               pm10 : {Absent, None, Num(25)},
               co2 : {Absent, Num(450)}]}
    \cup {Object([device_id |-> Str("s1"), temperature |-> Num(25)]),
          Other("text", "hello")}
AirQualityBackends == {up \in Backends : up.neo /\ up.pg = "ok"}

NextAirQuality ==
    \E p \in AirQualityPayloads, up \in AirQualityBackends :
        OnMessage("sensors/air_quality", p, up)

SpecAirQuality == InitProcessor /\ [][NextAirQuality]_vars

\* messages with a device id, with a null device id and without one, on the
\* production topics and on the catch-all topic
DeviceIdTopics ==
    {"sensors/temperature", "sensors/air_quality", "sensors/device/status", "test/topic"}
DeviceIdPayloads ==
    {Object([k \in {x \in {"device_id", "temperature", "battery_level"} :
                      f[x] # Absent} |-> f[k]]) :
        f \in [device_id : {Absent, None, Str("s1")},
               temperature : {Absent, Num(25)},
               battery_level : {Absent, Num(85)}]}
    \cup {Other("text", "hello")}

NextDeviceId ==
    \E t \in DeviceIdTopics, p \in DeviceIdPayloads : OnMessage(t, p, AllUp)

SpecDeviceId == InitProcessor /\ [][NextDeviceId]_vars

\* the host registers handlers before and after connecting, and the
\* connection comes and goes
NextConnection ==
    \/ RegisterMqttHandlers
    \/ \E t \in RegisterTopics, h \in RegisterHandlers : RegisterHandler(t, h)
    \/ Connect
    \/ \E rc \in BOOLEAN : OnConnect(rc)
    \/ OnDisconnect
    \/ \E cb \in BOOLEAN : Disconnect(cb)

SpecConnection == Init /\ [][NextConnection]_vars

\* the processor connects and the network loop delivers messages, each
\* handled in steps: entry, one step per store call, return
DispatchTopics == {"sensors/device/status", "sensors/temperature"}
DispatchPayloads ==
    {Object([device_id |-> Str("s1"), battery_level |-> Num(85)]),
     Object([device_id |-> Str("s1"), temperature |-> Num(25)]),
     Other("text", "hello")}
DispatchBackends == {AllUp, [AllUp EXCEPT !.pg = "lost"]}

NextDispatch ==
    \/ Connect
    \/ \E rc \in BOOLEAN : OnConnect(rc)
    \/ OnDisconnect
    \/ \E t \in DispatchTopics, p \in DispatchPayloads, up \in DispatchBackends :
          BeginMessage(t, p, up)
    \/ \E i \in 1..MaxMsgs : StoreCall(i)
    \/ \E i \in 1..MaxMsgs : ReturnMessage(i)

SpecDispatch == InitProcessor /\ [][NextDispatch]_vars

\* the main block: the processor starts, messages are delivered, and the
\* host stops the processor
NextLifecycle ==
    \/ Connect
    \/ \E rc \in BOOLEAN : OnConnect(rc)
    \/ \E t \in DispatchTopics, p \in DispatchPayloads : BeginMessage(t, p, AllUp)
    \/ \E i \in 1..MaxMsgs : StoreCall(i)
    \/ \E i \in 1..MaxMsgs : ReturnMessage(i)
    \/ Stop

SpecLifecycle == InitProcessor /\ [][NextLifecycle]_vars

\* graph-store operations in any order, on two devices and one location
GraphDevices ==
    {Dict([k \in {x \in {"device_id", "status"} : f[x] # Absent} |-> f[k]]) :
        f \in [device_id : {Str("d1"), Str("d2")}, status : {Absent, Str("idle")}]}
GraphLocations == {Str("room_a")}
GraphData ==
    {Dict([device_id |-> Str("d1"), temperature |-> Num(25), location |-> Str("room_a")]),
     Dict([device_id |-> Str("d2"), humidity |-> Num(60), location |-> Str("room_a")]),
     Dict([device_id |-> Str("d2"), pm2_5 |-> Num(15)]),
     Dict([device_id |-> Str("d1"), temperature |-> Num(25), co2 |-> Num(450),
           timestamp |-> Str("2024-01-09T10:30:00")])}
GraphBackends == {up \in Backends : up.mongo /\ up.meta /\ up.pg = "ok"}

NextGraph ==
    \/ \E d \in GraphDevices, up \in GraphBackends : CreateDeviceNode(d, up)
    \/ \E l \in GraphLocations, up \in GraphBackends : CreateLocationNode(l, Str("room"), up)
    \/ \E d \in GraphDevices, l \in GraphLocations, up \in GraphBackends :
          LinkDeviceToLocation(d["device_id"], l, up)
    \/ \E data \in GraphData, up \in GraphBackends : StoreEnvironmentalData(data, up)

SpecGraph == InitProcessor /\ [][NextGraph]_vars

\* register_handler on the host thread interleaved, statement by statement,
\* with on_connect on the network thread
NextInterleaving ==
    \/ \E t \in RouterTopics, h \in RegisterHandlers : RegisterStore(t, h)
    \/ RegisterSubscribe
    \/ Connect
    \/ OnConnectBegin
    \/ OnConnectNext

SpecInterleaving == Init /\ [][NextInterleaving]_vars

(***************************************************************************)
(* Properties.                                                             *)
(***************************************************************************)
\* the calls of the last message made with operation op
CallsOf(op) == {i \in 1..Len(last.calls) : last.calls[i].op = op}

\* the last message was handled by the device-status handler
StatusHandled == last.seen /\ last.invoked = <<"handle_device_status">>

\* C1: fan-out isolation.  When the document-store write of a device-status
\* message fails (insert_sensor_data returns no id) and the message has a
\* value for the relational record (a truthy battery level, or else a status),
\* the relational write is still attempted, after the failed one, with the
\* record of this envelope, and its outcome is observable: a write that
\* reports success has added its row to sensor_readings.
C1_FanOutIsolation ==
    (/\ StatusHandled
     /\ Len(last.calls) >= 1
     /\ last.calls[1].op = "insert_sensor_data"
     /\ ~last.calls[1].ok
     /\ (Truthy(Get(last.data, "battery_level")) \/ Get(last.data, "status") # None))
    => /\ Len(last.calls) = 2
       /\ last.calls[2].op = "insert_sensor_reading"
       /\ last.calls[2].rec.emb.d = last.data
       /\ last.calls[2].ok =>
            /\ Len(sensor_readings) >= 1
            /\ sensor_readings[Len(sensor_readings)].f["topic"] = Str(last.topic)
            /\ sensor_readings[Len(sensor_readings)].f["timestamp"]
                 = last.calls[2].rec.f["timestamp"]

C1_Witness ==
    /\ StatusHandled
    /\ Len(last.calls) = 2
    /\ ~last.calls[1].ok
    /\ last.calls[2].op = "insert_sensor_reading"
    /\ last.calls[2].ok
    /\ sensor_data = <<>>
    /\ Len(sensor_readings) = 1

\* the latest handler registered for the topic in the first n registrations
RECURSIVE LatestFor(_, _, _)
LatestFor(log, n, topic) ==
    IF n = 0 THEN NoHandler
    ELSE IF log[n][1] = topic THEN log[n][2]
    ELSE LatestFor(log, n - 1, topic)

\* how many of the first n registrations are for the topic
RECURSIVE TimesRegistered(_, _, _)
TimesRegistered(log, n, topic) ==
    IF n = 0 THEN 0
    ELSE TimesRegistered(log, n - 1, topic) + (IF log[n][1] = topic THEN 1 ELSE 0)

\* C2: a message whose envelope is dispatched on a topic that has been
\* registered invokes exactly one handler, once: the one most recently
\* registered for the topic before the delivery.  After the two registration
\* blocks of DataProcessor alone, that is a handler of the second block.
C2_LatestHandlerInvoked ==
    (/\ last.seen
     /\ last.built
     /\ TimesRegistered(reglog, last.regs, last.topic) > 0)
    => /\ last.invoked = <<LatestFor(reglog, last.regs, last.topic)>>
       /\ last.regs = Len(Registrations) /\ SubSeq(reglog, 1, last.regs) = Registrations
            => last.invoked[1] \in Block2 \cup {"handle_test"}

C2_Witness ==
    /\ last.seen
    /\ last.built
    /\ last.regs > Len(Registrations)
    /\ TimesRegistered(reglog, last.regs, last.topic) >= 3
    /\ last.invoked = <<reglog[last.regs][2]>>
    /\ last.topic = reglog[last.regs][1]

\* the insert_sensor_data call that this step completed successfully: the
\* document it added to sensor_data
Inserted == sensor_data'[Len(sensor_data')]
InsertStep == Len(sensor_data') = Len(sensor_data) + 1

\* the device-metadata document of a device id
MetaOf(coll, device_id) ==
    coll[CHOOSE i \in 1..Len(coll) : coll[i]["device_id"] = device_id]
HasMeta(coll, device_id) == \E i \in 1..Len(coll) : coll[i]["device_id"] = device_id

\* C3: when an insert_sensor_data call succeeds for a device that already has
\* a metadata document, and the metadata update is applied, the document
\* holds the new message's value for each sensor field the message set and
\* keeps its earlier value for each sensor field the message omitted; it keeps
\* the earlier location when the message has none, and the earlier sensor
\* types are still listed.
C3_MetadataMerge ==
    [][(/\ InsertStep
        /\ HasMeta(device_metadata, Get(Inserted.f, "device_id"))
        /\ device_metadata' # device_metadata)
       => LET d == Get(Inserted.f, "device_id")
              old == MetaOf(device_metadata, d)
              new == MetaOf(device_metadata', d)
          IN /\ \A k \in SensorKeys :
                   new["last_values"][k] =
                       IF Get(Inserted.f, k) # None THEN Inserted.f[k]
                       ELSE old["last_values"][k]
             /\ Get(Inserted.f, "location") = None /\ "location" \in DOMAIN old
                   => new["location"] = old["location"]
             /\ old["sensor_types"] \subseteq new["sensor_types"]]_vars

\* C4: the device-metadata collection holds at most one document per device id
C4_OneMetadataPerDevice ==
    \A i, j \in 1..Len(device_metadata) :
        device_metadata[i]["device_id"] = device_metadata[j]["device_id"] => i = j

C4_Witness ==
    /\ Len(sensor_data) = 2
    /\ sensor_data[1].f["device_id"] = sensor_data[2].f["device_id"]
    /\ Len(device_metadata) = 1
    /\ device_metadata[1]["last_seen"] = sensor_data[2].f["timestamp"]

\* C5: every device-status message with a battery level yields a relational
\* record whose value is the battery level and whose unit is "percent"
C5_BatteryValue ==
    (StatusHandled /\ Get(last.data, "battery_level") # None)
    => /\ CallsOf("insert_sensor_reading") # {}
       /\ \A i \in CallsOf("insert_sensor_reading") :
            /\ last.calls[i].rec.f["value"] = last.data["battery_level"]
            /\ last.calls[i].rec.f["unit"] = Str("percent")

\* C6: a device-status message with a status and no battery level: every
\* relational record of the message has the status as its value and the unit
\* "status", and there is one whenever the status is not null
C6_StatusValue ==
    (StatusHandled /\ Has(last.data, "status") /\ ~Has(last.data, "battery_level"))
    => /\ \A i \in CallsOf("insert_sensor_reading") :
            /\ last.calls[i].rec.f["value"] = last.data["status"]
            /\ last.calls[i].rec.f["unit"] = Str("status")
       /\ last.data["status"] # None => Cardinality(CallsOf("insert_sensor_reading")) = 1

C6_Witness ==
    /\ StatusHandled
    /\ last.data["status"] = Str("online")
    /\ ~Has(last.data, "battery_level")
    /\ \E i \in CallsOf("insert_sensor_reading") :
         last.calls[i].rec.f["value"] = Str("online")

\* C7: every text payload delivered on a registered topic becomes an envelope
\* that is dispatched to the topic's handler; a payload that is not a JSON
\* object (invalid JSON, or a JSON number, string or array) becomes a raw-text
\* envelope carrying the payload text, the topic and the receipt time
C7_EveryPayloadDispatched ==
    (last.seen /\ last.handler # NoHandler /\ last.payload.kind # "bad_utf8")
    => /\ last.built
       /\ last.invoked = <<last.handler>>
       /\ last.payload.kind # "object" =>
            /\ last.data["raw_data"] = Str(last.payload.text)
            /\ last.data["_topic"] = Str(last.topic)
            /\ Has(last.data, "_timestamp")

\* C8: an envelope routed through the temperature handler with neither a
\* temperature nor a humidity causes no relational write, so no row of
\* environmental_data lacks both values
C8_NoValuesNoRelationalWrite ==
    /\ \A i \in 1..Len(environmental_data) :
          \/ environmental_data[i].f["temperature"] # None
          \/ environmental_data[i].f["humidity"] # None
    /\ (/\ last.seen
        /\ last.built
        /\ last.topic \in {"sensors/temperature", "sensors/humidity"}
        /\ ~Has(last.data, "temperature")
        /\ ~Has(last.data, "humidity"))
       => /\ last.invoked = <<"handle_temperature">>
          /\ CallsOf("insert_environmental_data") = {}
          /\ CallsOf("insert_sensor_reading") = {}

C8_Witness ==
    /\ last.seen
    /\ last.topic = "sensors/humidity"
    /\ Has(last.data, "pm2_5")
    /\ ~Has(last.data, "temperature")
    /\ ~Has(last.data, "humidity")
    /\ last.invoked = <<"handle_temperature">>
    /\ last.calls = <<>>
    /\ Len(environmental_data) = 1

\* C9: a catch-all message with one of pm2_5, pm10, co2, aqi and neither
\* temperature nor humidity is handled as air quality: its one store call is a
\* document-store write tagged air_quality that embeds the envelope, and a
\* successful write leaves that document last in sensor_data
C9_AirQualityClassified ==
    (/\ last.seen
     /\ last.built
     /\ last.topic = "test/topic"
     /\ \E k \in {"pm2_5", "pm10", "co2", "aqi"} : Has(last.data, k)
     /\ ~Has(last.data, "temperature")
     /\ ~Has(last.data, "humidity"))
    => /\ last.invoked = <<"handle_test">>
       /\ Len(last.calls) = 1
       /\ last.calls[1].op = "insert_sensor_data"
       /\ last.calls[1].rec.f["sensor_type"] = Str("air_quality")
       /\ last.calls[1].rec.emb.d = last.data
       /\ last.calls[1].ok =>
            sensor_data[Len(sensor_data)].f["sensor_type"] = Str("air_quality")

C9_Witness ==
    /\ last.seen
    /\ last.topic = "test/topic"
    /\ Has(last.data, "aqi")
    /\ Has(last.data, "status")
    /\ \A k \in {"pm2_5", "pm10", "co2", "temperature", "humidity"} : ~Has(last.data, k)
    /\ Len(last.calls) = 1
    /\ last.calls[1].ok
    /\ sensor_data[Len(sensor_data)].f["sensor_type"] = Str("air_quality")

\* C10: a catch-all message never produces a device-status record: none of its
\* store calls is a sensor_readings write or carries the tag device_status,
\* so with catch-all messages only no such document or row exists
C10_NoDeviceStatusFromCatchAll ==
    /\ (last.seen /\ last.topic = "test/topic") =>
          \A i \in 1..Len(last.calls) :
              /\ last.calls[i].op # "insert_sensor_reading"
              /\ last.calls[i].rec.f["sensor_type"] # Str("device_status")
    /\ sensor_readings = <<>>
    /\ \A i \in 1..Len(sensor_data) :
          sensor_data[i].f["sensor_type"] # Str("device_status")

C10_Witness ==
    /\ last.seen
    /\ last.topic = "test/topic"
    /\ last.data["sensor_type"] = Str("device_status")
    /\ last.data["battery_level"] = Num(85)
    /\ Len(last.calls) = 1
    /\ last.calls[1].ok
    /\ sensor_data[Len(sensor_data)].f["sensor_type"] = Str("test")

\* this step is an on_message call
MessageStep == count'.msgs = count.msgs + 1

\* C11: a message on a topic without a handler invokes no handler, makes no
\* store call and leaves every store as it was; once its payload is decoded
\* into an envelope the warning is logged.  Nothing of it is kept: the next
\* message on a topic with a handler is dispatched to that handler, and to
\* that handler only.
C11_UnregisteredDropped ==
    [][/\ (MessageStep /\ message_handlers[last'.topic] = NoHandler)
          => /\ last'.invoked = <<>>
             /\ last'.calls = <<>>
             /\ stores' = stores
             /\ last'.built => last'.warned
       /\ (/\ MessageStep
           /\ last.seen
           /\ message_handlers[last.topic] = NoHandler
           /\ last'.built
           /\ message_handlers[last'.topic] # NoHandler)
          => last'.invoked = <<message_handlers[last'.topic]>>]_vars

C11_Witness ==
    /\ last.seen
    /\ last.prev.warned
    /\ ~last.warned
    /\ last.topic = "sensors/temperature"
    /\ last.invoked = <<"handle_temperature">>
    /\ Len(last.calls) = 1
    /\ last.calls[1].ok
    /\ Len(environmental_data) = 1

\* C12: no exception raised while a message is decoded, routed or handled
\* leaves on_message, whether it comes from the decode, from the envelope or
\* from a store adapter that raises; a store adapter that fails returns
\* without raising.  After a message that failed, the next message whose
\* envelope is built on a topic with a handler is dispatched to that handler.
C12_NoFailurePropagates ==
    [][MessageStep
       => /\ ~last'.propagated
          /\ last'.exc # "none" <=> last'.error
          /\ (/\ last.seen
              /\ (last.error \/ \E i \in 1..Len(last.calls) : ~last.calls[i].ok)
              /\ last'.built
              /\ message_handlers[last'.topic] # NoHandler)
             => last'.invoked = <<message_handlers[last'.topic]>>]_vars

C12_Witness ==
    /\ last.seen
    /\ last.prev.error
    /\ last.exc = "InterfaceError"
    /\ ~last.propagated
    /\ last.invoked = <<"handle_device_status">>
    /\ Len(last.calls) = 2
    /\ last.calls[1].ok
    /\ ~last.calls[2].ok

\* the calls of the last message into the graph store
GraphCalls ==
    CallsOf("store_environmental_data") \cup CallsOf("create_device_node")
        \cup CallsOf("link_device_to_location")

\* C13: with the handlers DataProcessor registers, a temperature message is
\* written to the relational store and the graph store, an air-quality
\* message to the document store and the graph store, and a device-status
\* message to all three stores
C13_AllStoresWritten ==
    (last.seen /\ last.built /\ last.regs = Len(Registrations))
    => /\ (last.topic = "sensors/temperature" /\ Has(last.data, "temperature"))
            => CallsOf("insert_environmental_data") # {} /\ GraphCalls # {}
       /\ (last.topic = "sensors/air_quality" /\ Has(last.data, "pm2_5"))
            => CallsOf("insert_sensor_data") # {} /\ GraphCalls # {}
       /\ (last.topic = "sensors/device/status" /\ Has(last.data, "battery_level"))
            => /\ CallsOf("insert_sensor_data") # {}
               /\ CallsOf("insert_sensor_reading") # {}
               /\ GraphCalls # {}

\* the pollutant fields the last envelope has
Pollutants == {k \in {"pm2_5", "pm10", "co2"} : Has(last.data, k)}

\* C14: a message handled by the air-quality handler makes exactly one store
\* call, a document-store write tagged air_quality that carries the
\* envelope's pollutant values (null for those it lacks), however many of
\* pm2_5, pm10 and co2 the message has; a write that succeeds adds exactly
\* that document to sensor_data
C14_OneAirQualityWrite ==
    [][(MessageStep /\ last'.invoked = <<"handle_air_quality">>)
       => /\ Len(last'.calls) = 1
          /\ last'.calls[1].op = "insert_sensor_data"
          /\ last'.calls[1].rec.f["sensor_type"] = Str("air_quality")
          /\ \A k \in {"pm2_5", "pm10", "co2"} :
                last'.calls[1].rec.f[k] = Get(last'.data, k)
          /\ Len(sensor_data') = Len(sensor_data) + (IF last'.calls[1].ok THEN 1 ELSE 0)
          /\ last'.calls[1].ok =>
                sensor_data'[Len(sensor_data')].f["sensor_type"] = Str("air_quality")]_vars

C14_Witness ==
    /\ last.seen
    /\ last.invoked = <<"handle_air_quality">>
    /\ last.payload.kind = "object"
    /\ Pollutants = {}
    /\ Len(last.calls) = 1
    /\ last.calls[1].ok
    /\ Len(sensor_data) = 2
    /\ \A k \in {"pm2_5", "pm10", "co2"} : sensor_data[1].f[k] # None

\* the default device id of a topic
DefaultDevice(topic) == IF topic = "test/topic" THEN Str("test_device") ELSE Str("unknown")

\* C15: every record handed to a store adapter carries a device id: the
\* envelope's own when the envelope has one, otherwise the default of the
\* topic; none is handed over with a null device id
C15_DeviceIdPresent ==
    last.seen
    => \A i \in 1..Len(last.calls) :
          /\ last.calls[i].rec.f["device_id"] # None
          /\ last.calls[i].rec.f["device_id"] =
                IF Get(last.data, "device_id") # None THEN last.data["device_id"]
                ELSE DefaultDevice(last.topic)

\* the topics with a handler
Registered == {t \in Topics : message_handlers[t] # NoHandler}

\* C16: while the broker connection is established, a subscription has been
\* requested on it for every topic with a handler, whether the topic was
\* registered before the connection or during it; and the connected flag is
\* set throughout
C16_RegisteredSubscribed ==
    transport.link => connected /\ Registered \subseteq subscribed

C16_Witness ==
    /\ transport.link
    /\ connected
    /\ Len(reglog) = Len(Registrations) + 2
    /\ reglog[Len(reglog) - 1][1] = "other/topic"
    /\ reglog[Len(reglog)][1] = "sensors/temperature"
    /\ subscribed = ProcessorTopics \cup {"other/topic"}

\* C17: messages are handled one at a time in delivery order: at most one
\* on_message call is in progress, it is the call for the message after the
\* last one that returned, and the store calls are made message by message,
\* all those of message N before any of message N+1
C17_OneAtATime ==
    /\ Len(transport.inflight) <= 1
    /\ \A i \in 1..Len(transport.inflight) : transport.inflight[i].n = count.msgs + 1
    /\ \A i, j \in 1..Len(transport.log) :
          i < j => transport.log[i][1] <= transport.log[j][1]
    /\ \A i \in 1..Len(transport.log) :
          transport.log[i][1] <= count.msgs + Len(transport.inflight)

C17_Witness ==
    /\ count.msgs = 1
    /\ Len(transport.inflight) = 1
    /\ transport.inflight[1].n = 2
    /\ transport.inflight[1].made = 1
    /\ transport.log = << <<1, "insert_sensor_data">>, <<1, "insert_sensor_reading">>,
                          <<2, "insert_sensor_data">> >>
    /\ last.exc = "InterfaceError"

\* C18: an envelope handled by the temperature handler with a temperature or
\* a humidity makes one relational write whose record has the envelope's
\* temperature and humidity, its device id and location where it has them,
\* the topic the message arrived on as metadata topic, and the envelope
\* itself as metadata raw_data; a write that succeeds stores those values,
\* the metadata serialised as JSON
C18_RelationalRecord ==
    (/\ last.seen
     /\ last.invoked = <<"handle_temperature">>
     /\ (Get(last.data, "temperature") # None \/ Get(last.data, "humidity") # None))
    => /\ Len(last.calls) = 1
       /\ last.calls[1].op = "insert_environmental_data"
       /\ LET rec == last.calls[1].rec
              row == environmental_data[Len(environmental_data)]
          IN /\ \A k \in {"temperature", "humidity"} : rec.f[k] = Get(last.data, k)
             /\ \A k \in {"device_id", "location"} :
                   Has(last.data, k) => rec.f[k] = last.data[k]
             /\ rec.f["metadata_topic"] = Str(last.topic)
             /\ rec.emb = Emb("metadata.raw_data", last.data)
             /\ last.calls[1].ok =>
                   /\ \A k \in {"temperature", "humidity", "device_id", "location",
                                 "metadata_topic"} : row.f[k] = rec.f[k]
                   /\ row.emb = JsonDumps("metadata.raw_data", last.data)

C18_Witness ==
    /\ last.seen
    /\ last.topic = "sensors/humidity"
    /\ last.invoked = <<"handle_temperature">>
    /\ last.data["location"] = Str("room_a")
    /\ ~Has(last.data, "temperature")
    /\ Len(last.calls) = 1
    /\ last.calls[1].ok
    /\ Len(environmental_data) = 2
    /\ environmental_data[2].f["location"] = Str("room_a")
    /\ environmental_data[2].f["metadata_topic"] = Str("sensors/humidity")
    /\ environmental_data[2].emb.d = last.data

\* C19: once stop() has been called, the network loop is stopped and the
\* broker connection closed, no on_message call is in progress, and no
\* message is dispatched any more
C19_StoppedIsQuiet ==
    [][transport.stop # "none"
       => /\ ~transport.loop
          /\ ~transport.link
          /\ transport.inflight = <<>>
          /\ count' = count
          /\ transport'.inflight = <<>>]_vars

\* C20: the graph has at most one Device node per device id, at most one
\* Location node per name and at most one LOCATED_IN link per device and
\* location, and every link joins a Device node and a Location node
C20_GraphKeysUnique ==
    /\ \A i, j \in 1..Len(graph.devices) :
          graph.devices[i]["device_id"] = graph.devices[j]["device_id"] => i = j
    /\ \A i, j \in 1..Len(graph.locations) :
          graph.locations[i]["name"] = graph.locations[j]["name"] => i = j
    /\ \A i, j \in 1..Len(graph.located_in) :
          graph.located_in[i] = graph.located_in[j] => i = j
    /\ \A i \in 1..Len(graph.located_in) :
          /\ NodesWith(graph.devices, "device_id", graph.located_in[i].device_id) # {}
          /\ NodesWith(graph.locations, "name", graph.located_in[i].name) # {}

C20_Witness ==
    /\ count.inserts = 2
    /\ Len(graph.readings) = 2
    /\ graph.readings[1].device_id = Str("d1")
    /\ graph.readings[2].device_id = Str("d1")
    /\ Len(graph.devices) = 2
    /\ graph.devices[1]["device_id"] = Str("d1")
    /\ graph.devices[1]["status"] = Str("idle")
    /\ Len(graph.locations) = 1
    /\ graph.locations[1]["type"] = Str("room")
    /\ Len(graph.located_in) = 2

\* the keys handle_test classifies a message by
ClassKeys == {"temperature", "humidity"} \cup AirKeys

\* C21: a catch-all message with none of temperature, humidity, pm2_5, pm10,
\* co2, aqi makes exactly one store call, a document-store write tagged
\* "test" that embeds the envelope's whole field mapping; a write that
\* succeeds adds one document holding that mapping unchanged, and neither
\* relational table changes
C21_UnclassifiedDocument ==
    [][(/\ MessageStep
        /\ last'.built
        /\ last'.topic = "test/topic"
        /\ \A k \in ClassKeys : ~Has(last'.data, k))
       => /\ last'.invoked = <<"handle_test">>
          /\ Len(last'.calls) = 1
          /\ last'.calls[1].op = "insert_sensor_data"
          /\ last'.calls[1].rec.f["sensor_type"] = Str("test")
          /\ last'.calls[1].rec.emb = Emb("data", last'.data)
          /\ Len(sensor_data') = Len(sensor_data) + (IF last'.calls[1].ok THEN 1 ELSE 0)
          /\ last'.calls[1].ok =>
                /\ sensor_data'[Len(sensor_data')].f["sensor_type"] = Str("test")
                /\ sensor_data'[Len(sensor_data')].emb = Emb("data", last'.data)
          /\ environmental_data' = environmental_data
          /\ sensor_readings' = sensor_readings]_vars

C21_Witness ==
    /\ last.seen
    /\ last.topic = "test/topic"
    /\ last.payload.kind = "object"
    /\ Has(last.data, "status")
    /\ \A k \in ClassKeys : ~Has(last.data, k)
    /\ Len(last.calls) = 1
    /\ last.calls[1].ok
    /\ Len(environmental_data) = 1
    /\ Len(sensor_data) = 1
    /\ sensor_data[1].emb.d = last.data
    /\ sensor_data[1].f["device_id"] = Str("test_device")

\* C22: every device-status message makes the document-store write, and
\* makes the relational write exactly when its value, the battery level or
\* else the status, is not null; with neither field it makes the document
\* write only
C22_RelationalIffValue ==
    StatusHandled
    => /\ Cardinality(CallsOf("insert_sensor_data")) = 1
       /\ CallsOf("insert_sensor_reading") # {}
            <=> (IF Get(last.data, "battery_level") # None
                 THEN last.data["battery_level"]
                 ELSE Get(last.data, "status")) # None

\* the calls of the last message that write an environmental record with
\* neither a temperature nor a humidity
EmptyEnvCalls ==
    {i \in CallsOf("insert_environmental_data") :
        /\ last.calls[i].rec.f["temperature"] = None
        /\ last.calls[i].rec.f["humidity"] = None}

\* C23: on every path, the catch-all topic included, an environmental record
\* is handed to the relational store only with a temperature or a humidity
\* that is not null, and no row of environmental_data lacks both
C23_NoEmptyEnvironmentalRow ==
    /\ EmptyEnvCalls = {}
    /\ \A i \in 1..Len(environmental_data) :
          \/ environmental_data[i].f["temperature"] # None
          \/ environmental_data[i].f["humidity"] # None

\* the field names of an envelope, and the kind a catch-all message was
\* handled as: the operation and the kind tag of its store call
KeySet(d) == {k \in Keys : Has(d, k)}
HandledAs(l) == <<l.calls[1].op, l.calls[1].rec.f["sensor_type"]>>

\* C24: on the catch-all topic a message with a temperature or a humidity
\* key is handled as Temperature, whatever air-quality keys it also has: its
\* one store call is the environmental relational write and the document
\* store is left alone; and two messages with the same field names are
\* handled as the same kind
C24_ClassificationOrder ==
    [][(MessageStep /\ last'.built /\ last'.topic = "test/topic")
       => /\ Len(last'.calls) = 1
          /\ (Has(last'.data, "temperature") \/ Has(last'.data, "humidity"))
               => /\ last'.calls[1].op = "insert_environmental_data"
                  /\ sensor_data' = sensor_data
                  /\ device_metadata' = device_metadata
          /\ (/\ last.seen
              /\ last.built
              /\ last.topic = "test/topic"
              /\ KeySet(last.data) = KeySet(last'.data))
               => HandledAs(last') = HandledAs(last)]_vars

C24_Witness ==
    /\ last.seen
    /\ last.topic = "test/topic"
    /\ Has(last.data, "temperature")
    /\ Has(last.data, "pm2_5")
    /\ Has(last.data, "aqi")
    /\ Len(last.calls) = 1
    /\ last.calls[1].op = "insert_environmental_data"
    /\ last.calls[1].ok
    /\ sensor_data = <<>>
    /\ Len(environmental_data) = 2
    /\ environmental_data[1].f["temperature"] = None

\* the calls of a message with an operation, and those that succeeded
OpCalls(l, op) == {i \in 1..Len(l.calls) : l.calls[i].op = op}
OkCalls(l, op) == {i \in OpCalls(l, op) : l.calls[i].ok}

\* the collection or table grew by n entries and kept the ones it had
GrewBy(old, new, n) == Len(new) = Len(old) + n /\ SubSeq(new, 1, Len(old)) = old

\* C25: a message makes each of its store writes at most once, a write that
\* fails is not repeated, and nothing written earlier is removed or
\* rewritten: each collection and table keeps its entries and grows by
\* exactly the writes that succeeded
C25_NoRetryNoCompensation ==
    [][MessageStep
       => /\ \A op \in {"insert_sensor_data", "insert_sensor_reading",
                         "insert_environmental_data"} :
                Cardinality(OpCalls(last', op)) <= 1
          /\ GrewBy(sensor_data, sensor_data',
                    Cardinality(OkCalls(last', "insert_sensor_data")))
          /\ GrewBy(sensor_readings, sensor_readings',
                    Cardinality(OkCalls(last', "insert_sensor_reading")))
          /\ GrewBy(environmental_data, environmental_data',
                    Cardinality(OkCalls(last', "insert_environmental_data")))]_vars

C25_Witness ==
    /\ count.msgs = 2
    /\ StatusHandled
    /\ Len(last.calls) = 2
    /\ ~last.calls[1].ok
    /\ last.calls[2].ok
    /\ Len(sensor_data) = 1
    /\ Len(sensor_readings) = 1
    /\ sensor_data[1].f["timestamp"] = FromIso(NowIso(1))
    /\ sensor_readings[1].f["timestamp"] = NowIso(2)

\* C26: handling a message leaves the envelope as on_message built it, and
\* every record handed to a store is built from that envelope: the record
\* handed to the relational store has the timestamp text of the envelope
\* (or of the clock), not the datetime the document store put into its own
\* record, and the envelope it embeds is the one that was built
C26_EnvelopeUnchanged ==
    (last.seen /\ last.built)
    => /\ last.env = last.data
       /\ \A i \in 1..Len(last.calls) :
            /\ last.calls[i].rec.emb.key # "self"
            /\ last.calls[i].rec.emb.key # "" => last.calls[i].rec.emb.d = last.data
            /\ last.calls[i].rec.f["timestamp"] \in
                  {Get(last.data, "timestamp")} \cup {NowIso(c) : c \in 1..(MaxMsgs + MaxInserts)}

C26_Witness ==
    /\ StatusHandled
    /\ last.env = last.data
    /\ Len(last.calls) = 2
    /\ last.calls[1].ok
    /\ last.calls[2].ok
    /\ sensor_data[Len(sensor_data)].f["timestamp"].t = "dt"
    /\ sensor_readings[Len(sensor_readings)].f["timestamp"].t = "str"
    /\ sensor_readings[Len(sensor_readings)].emb.d = last.data

\* C27: however register_handler calls interleave with on_connect, the
\* subscription loop of on_connect ends without an exception, and once both
\* have returned every topic with a handler has been subscribed on the
\* connection
C27_InterleavedSubscriptions ==
    /\ ~transport.iter.raised
    /\ (transport.link /\ ~transport.iter.active /\ transport.reg = "")
         => Registered \subseteq subscribed

\* C28: the connected flag is true only while the transport's connection is
\* up: a refused connection leaves it false, and it is false once the
\* connection is lost or disconnect() has returned
C28_FlagTracksTransport ==
    connected => (transport.loop /\ transport.link)

\* C29: a call of insert_sensor_data returns an id exactly when it added one
\* document to sensor_data, and a call that returns absent (no connection,
\* a timestamp string that does not parse, a driver error) leaves sensor_data
\* and device_metadata as they were
C29_IdIffInserted ==
    [][count'.inserts = count.inserts + 1 =>
         LET ok == last'.calls[1].ok
         IN /\ Len(last'.calls) = 1
            /\ ok <=> GrewBy(sensor_data, sensor_data', 1)
            /\ ~ok => (sensor_data' = sensor_data /\ device_metadata' = device_metadata)
            /\ ok => sensor_data'[Len(sensor_data')].f =
                         WithTimestamp(last'.calls[1].rec.f, Clock)]_vars

\* a call with a timestamp string that does not parse returned absent after
\* an earlier call had stored a document and its device's metadata
C29_Witness ==
    /\ count.inserts = 2
    /\ Len(sensor_data) = 1
    /\ device_metadata # <<>>
    /\ Len(last.calls) = 1
    /\ ~last.calls[1].ok
    /\ TimestampRaises(last.calls[1].rec.f)

\* the call of store_environmental_data a step makes returned True
StoredEnv ==
    /\ count'.inserts = count.inserts + 1
    /\ Len(last'.calls) = 1
    /\ last'.calls[1].op = "store_environmental_data"
    /\ last'.calls[1].ok

\* the call created a Reading of the device for each of the five values
\* that is not null in the message
ReadingsStored ==
    LET data == last'.calls[1].rec.f
    IN \A k \in SensorKeys :
          Get(data, k) # None =>
             \E j \in (Len(graph.readings) + 1)..Len(graph'.readings) :
                /\ graph'.readings[j].device_id = Get(data, "device_id")
                /\ graph'.readings[j].sensor_type = Str(k)
                /\ graph'.readings[j].value = Get(data, k)
                /\ graph'.readings[j].timestamp = Get(data, "timestamp")

\* C30: when store_environmental_data returns True for a message, the graph
\* has the Device node of the message's device id with last_seen equal to
\* the message's timestamp, and a Reading linked to the device for each of
\* temperature, humidity, pm2_5, pm10, co2 that is not null in the message
C30_DeviceAndReadings ==
    [][StoredEnv =>
         LET data == last'.calls[1].rec.f
         IN /\ \E i \in NodesWith(graph'.devices, "device_id", Get(data, "device_id")) :
                  graph'.devices[i]["last_seen"] = Get(data, "timestamp")
            /\ ReadingsStored]_vars

====
